---- MODULE Spec2Model ----
(***************************************************************************)
(* Model of kovaaks_loader.py: parse_kovaaks_csv (the three-section file   *)
(* parser) and load_all_kovaaks_data (the directory aggregator).           *)
(*                                                                         *)
(* Text is a sequence of one-character strings, so that strip, startswith, *)
(* split, int(), float() and the filename pattern are computed character   *)
(* by character.  Line indices are 0-based as in the source; lines[k] of   *)
(* the source is lines[k + 1] here.                                        *)
(***************************************************************************)
EXTENDS Integers, Sequences, FiniteSets, TLC

VARIABLES
    \* parse_kovaaks_csv
    lines,          \* f.readlines(), without the line terminators
    i,              \* the loop index of the boundary scan, then of the stats loop
    section1_end,
    section2_end,
    examined,       \* history: the line indices the boundary scan has looked at
    main_df,
    weapon_df,
    stats_dict,
    reads,          \* history: the number of pd.read_csv calls made so far
    pc,             \* position in parse_kovaaks_csv
    \* the value clean-up and conversion of one stats line (lines 89-100)
    raw,            \* parts[1] of a stats line
    value,          \* what is stored in stats_dict
    uncaught,       \* the exception that left the try block uncaught, or "none"
    cpc,
    \* load_all_kovaaks_data
    listing,        \* history: the directory entries handled so far, in os.listdir order
    main_data,
    weapon_data,
    stats_data,
    count,          \* the counter i of load_all_kovaaks_data
    log,            \* what was printed
    lpc

vars == <<lines, i, section1_end, section2_end, examined, main_df, weapon_df,
          stats_dict, reads, pc, raw, value, uncaught, cpc,
          listing, main_data, weapon_data, stats_data, count, log, lpc>>

parseVars == <<lines, i, section1_end, section2_end, examined, main_df, weapon_df,
               stats_dict, reads, pc>>
coerceVars == <<raw, value, uncaught, cpc>>
loadVars == <<listing, main_data, weapon_data, stats_data, count, log, lpc>>

-----------------------------------------------------------------------------
(* Bounds of the checked inputs *)

MaxLines == 4       \* longest enumerated file, in lines
MaxValLen == 4      \* longest enumerated stats value text, in characters
MaxFiles == 4       \* longest directory listing

-----------------------------------------------------------------------------
(* Python values *)

None == -1

Whitespace == {" ", "\t", "\n", "\r"}

Digits == <<"0", "1", "2", "3", "4", "5", "6", "7", "8", "9">>

IsDigit(c) == \E k \in 1..10 : Digits[k] = c

DigitVal(c) == (CHOOSE k \in 1..10 : Digits[k] = c) - 1

EmptyMap == [x \in {} |-> 0]

\* d[key] = v on a dict
Put(d, key, v) == [x \in DOMAIN d \cup {key} |-> IF x = key THEN v ELSE d[x]]

Min(a, b) == IF a < b THEN a ELSE b

Max(a, b) == IF a > b THEN a ELSE b

-----------------------------------------------------------------------------
(* str methods *)

RECURSIVE LStrip(_, _)
LStrip(s, chars) ==
    IF s = <<>> \/ Head(s) \notin chars THEN s ELSE LStrip(Tail(s), chars)

RECURSIVE RStrip(_, _)
RStrip(s, chars) ==
    IF s = <<>> \/ s[Len(s)] \notin chars THEN s
    ELSE RStrip(SubSeq(s, 1, Len(s) - 1), chars)

Strip(s) == RStrip(LStrip(s, Whitespace), Whitespace)

StartsWith(s, p) == Len(s) >= Len(p) /\ SubSeq(s, 1, Len(p)) = p

EndsWith(s, p) == Len(s) >= Len(p) /\ SubSeq(s, Len(s) - Len(p) + 1, Len(s)) = p

Contains(s, c) == \E k \in 1..Len(s) : s[k] = c

\* position of the first c in s (s contains c)
Find(s, c) == CHOOSE k \in 1..Len(s) : s[k] = c /\ \A j \in 1..(k - 1) : s[j] # c

\* s.split(c, 1) when c is in s
Split1(s, c) == <<SubSeq(s, 1, Find(s, c) - 1), SubSeq(s, Find(s, c) + 1, Len(s))>>

-----------------------------------------------------------------------------
(* The sentinels and the boundary scan, lines 41-49 *)

WeaponToken == <<"W", "e", "a", "p", "o", "n", ",">>

KillsToken == <<"K", "i", "l", "l", "s", ":", ",">>

\* ScanBody without the break of line 49
ScanBodyNoBreak(s1, s2, idx, line) ==
    [s1 |-> IF StartsWith(Strip(line), WeaponToken) /\ s1 = None THEN idx ELSE s1,
     s2 |-> IF StartsWith(Strip(line), KillsToken) /\ s2 = None THEN idx ELSE s2,
     brk |-> FALSE]

\* One iteration of the loop of line 44 on lines[idx], from boundaries s1, s2:
\* the boundaries after it and whether it left the loop by break.
ScanBody(s1, s2, idx, line) ==
    LET n1 == IF StartsWith(Strip(line), WeaponToken) /\ s1 = None THEN idx ELSE s1
        hit == StartsWith(Strip(line), KillsToken) /\ s2 = None
    IN  [s1 |-> n1, s2 |-> IF hit THEN idx ELSE s2, brk |-> hit]

\* The whole loop from index idx on.
RECURSIVE ScanFrom(_, _, _, _)
ScanFrom(ls, s1, s2, idx) ==
    IF idx >= Len(ls) THEN [s1 |-> s1, s2 |-> s2]
    ELSE LET r == ScanBody(s1, s2, idx, ls[idx + 1])
         IN  IF r.brk THEN [s1 |-> r.s1, s2 |-> r.s2]
             ELSE ScanFrom(ls, r.s1, r.s2, idx + 1)

-----------------------------------------------------------------------------
(* pandas: read_csv with the defaults (C parser, sep=',', header inferred, *)
(* skip_blank_lines=True), DataFrame(), dropna.  A DataFrame is its column *)
(* names and its rows; a row records the index of the file line it was     *)
(* read from (src), the leading fields pandas takes as the row's index     *)
(* when the first data row is wider than the header, and its cells.  The   *)
(* dtype inference of the cells is not modelled: a cell is its field text, *)
(* or NaN for an empty field.  The enumerated lines hold no quote          *)
(* character and no NA marker other than the empty field.                  *)

NaN == <<"NaN">>

EmptyDF == [columns |-> <<>>, rows |-> <<>>]

\* a line split at the delimiter
RECURSIVE Fields(_)
Fields(s) ==
    IF ~Contains(s, ",") THEN <<s>>
    ELSE <<Split1(s, ",")[1]>> \o Fields(Split1(s, ",")[2])

\* the tokenizer skips empty lines and lines of blanks only
IsBlankLine(s) == \A k \in 1..Len(s) : s[k] \in {" ", "\t"}

\* the indices (0-based) of the lines the tokenizer parses after skipping
\* the first `skiprows` lines
ParsedLines(ls, skiprows) ==
    SelectSeq([k \in 1..Len(ls) |-> k - 1],
              LAMBDA k : k >= skiprows /\ ~IsBlankLine(ls[k + 1]))

UnnamedPrefix == <<"U", "n", "n", "a", "m", "e", "d", ":", " ">>

\* header fields to column names: an empty name becomes "Unnamed: <pos>", a
\* repeated name gets ".<n>" appended
ColumnNames(hdr) ==
    [k \in 1..Len(hdr) |->
        LET dup == Cardinality({j \in 1..(k - 1) : hdr[j] = hdr[k]})
        IN  IF hdr[k] = <<>> THEN UnnamedPrefix \o <<Digits[k]>>
            ELSE IF dup > 0 THEN hdr[k] \o <<".", Digits[dup + 1]>>
            ELSE hdr[k]]

\* a row's fields padded with empty fields to `width`
PadFields(fs, width) == [k \in 1..Max(width, Len(fs)) |-> IF k <= Len(fs) THEN fs[k] ELSE <<>>]

Cell(f) == IF f = <<>> THEN NaN ELSE f

\* pd.read_csv(filepath, skiprows=skiprows, nrows=nrows) on a file holding ls:
\* ok = FALSE stands for a raised EmptyDataError or ParserError.
read_csv(ls, skiprows, nrows) ==
    LET nb == ParsedLines(ls, skiprows)
    IN  IF nb = <<>> THEN [ok |-> FALSE, df |-> EmptyDF]
        ELSE
        LET hdr == Fields(ls[nb[1] + 1])
            ncols == Len(hdr)
            data == Tail(nb)
            \* the first data row is tokenized with the header and is never
            \* checked against it: a wider one sets the row width
            width == IF data = <<>> THEN ncols
                     ELSE Max(ncols, Len(Fields(ls[data[1] + 1])))
            taken == SubSeq(data, 1, Min(nrows, Len(data)))
            bad == \E k \in 2..Len(taken) : Len(Fields(ls[taken[k] + 1])) > width
        IN  IF bad THEN [ok |-> FALSE, df |-> EmptyDF]
            ELSE [ok |-> TRUE,
                  df |-> [columns |-> ColumnNames(hdr),
                          rows |-> [k \in 1..Len(taken) |->
                              LET fs == PadFields(Fields(ls[taken[k] + 1]), width)
                              IN  [src |-> taken[k],
                                   index |-> SubSeq(fs, 1, width - ncols),
                                   cells |-> [c \in 1..ncols |-> Cell(fs[width - ncols + c])]]]]]

\* df.dropna(how='all')
dropna_all(df) ==
    [columns |-> df.columns,
     rows |-> SelectSeq(df.rows, LAMBDA r : \E c \in 1..Len(r.cells) : r.cells[c] # NaN)]

-----------------------------------------------------------------------------
(* The two tables, lines 51-78 *)

\* MainTable reading the header line whenever the full read is not made
MainTableHeaderAlways(ls, s1) ==
    IF s1 # None /\ s1 > 0 /\ read_csv(ls, 0, s1 - 1).ok
          /\ Len(read_csv(ls, 0, s1 - 1).df.rows) # 0
    THEN [df |-> read_csv(ls, 0, s1 - 1).df, reads |-> 1]
    ELSE IF read_csv(ls, 0, 0).ok THEN [df |-> read_csv(ls, 0, 0).df, reads |-> 1]
    ELSE [df |-> EmptyDF, reads |-> 1]

\* lines 52-66: the table and the number of read_csv calls made
MainTable(ls, s1) ==
    IF s1 # None /\ s1 > 0 THEN
        LET first == read_csv(ls, 0, s1 - 1)
            again == read_csv(ls, 0, 0)
        IN  IF first.ok /\ Len(first.df.rows) # 0 THEN [df |-> first.df, reads |-> 1]
            ELSE IF first.ok /\ again.ok THEN [df |-> again.df, reads |-> 2]
            ELSE IF first.ok THEN [df |-> EmptyDF, reads |-> 3]
            ELSE IF again.ok THEN [df |-> again.df, reads |-> 2]
            ELSE [df |-> EmptyDF, reads |-> 2]
    ELSE [df |-> EmptyDF, reads |-> 0]

\* lines 69-78
WeaponTable(ls, s1, s2) ==
    IF s1 # None /\ s2 # None THEN
        LET r == read_csv(ls, s1, s2 - s1 - 1)
        IN  IF r.ok THEN [df |-> dropna_all(r.df), reads |-> 1]
            ELSE [df |-> EmptyDF, reads |-> 1]
    ELSE [df |-> EmptyDF, reads |-> 0]

-----------------------------------------------------------------------------
(* The stats block, lines 81-101.  A stored value is a str, an int or a    *)
(* float; a float is mantissa * 10^-exponent with no trailing zero digit,  *)
(* so that equal numbers are equal values whatever text they were read     *)
(* from.  The enumerated texts hold no sign, underscore or exponent        *)
(* character.                                                              *)

StrVal(s) == [t |-> "str", s |-> s, n |-> 0, e |-> 0]

IntVal(n) == [t |-> "int", s |-> <<>>, n |-> n, e |-> 0]

RECURSIVE FloatVal(_, _)
FloatVal(m, e) ==
    IF e > 0 /\ m % 10 = 0 THEN FloatVal(m \div 10, e - 1)
    ELSE [t |-> "float", s |-> <<>>, n |-> m, e |-> e]

AllDigits(s) == \A k \in 1..Len(s) : IsDigit(s[k])

RECURSIVE ToInt(_)
ToInt(s) == IF s = <<>> THEN 0 ELSE ToInt(SubSeq(s, 1, Len(s) - 1)) * 10 + DigitVal(s[Len(s)])

\* int(v): the value, or the exception raised
int_(v) ==
    IF v # <<>> /\ AllDigits(v) THEN [raised |-> "none", val |-> IntVal(ToInt(v))]
    ELSE [raised |-> "ValueError", val |-> StrVal(v)]

\* float(v) for a text that holds a '.'
float_(v) ==
    LET whole == Split1(v, ".")[1]
        frac == Split1(v, ".")[2]
    IN  IF AllDigits(whole) /\ AllDigits(frac) /\ Len(whole) + Len(frac) > 0
        THEN [raised |-> "none", val |-> FloatVal(ToInt(whole \o frac), Len(frac))]
        ELSE [raised |-> "ValueError", val |-> StrVal(v)]

\* CleanValue stripping the trailing commas only
CleanValueTrailingOnly(v) == Strip(RStrip(Strip(v), {","}))

\* line 91
CleanValue(v) == Strip(RStrip(LStrip(Strip(v), {","}), {","}))

\* the exception class of the handler of line 99
Caught == "ValueError"

\* lines 93-100 on a cleaned value: the value to store, and the exception
\* that escapes the handler, if any
Convert(v) ==
    IF v # <<>> THEN
        LET r == IF Contains(v, ".") THEN float_(v) ELSE int_(v)
        IN  IF r.raised = "none" THEN [val |-> r.val, uncaught |-> "none"]
            ELSE IF r.raised = Caught THEN [val |-> StrVal(v), uncaught |-> "none"]
            ELSE [val |-> StrVal(v), uncaught |-> r.raised]
    ELSE [val |-> StrVal(v), uncaught |-> "none"]

\* lines 89-100: from parts[1] to the stored value
Coerce(part) == Convert(CleanValue(Strip(part)))

\* StatsBody keeping the first value of a key
StatsBodyFirstWins(d, rawline) ==
    LET line == Strip(rawline)
    IN  IF line # <<>> /\ Contains(line, ":") /\ Strip(Split1(line, ":")[1]) \notin DOMAIN d
        THEN Put(d, Strip(Split1(line, ":")[1]), Coerce(Split1(line, ":")[2]).val)
        ELSE d

\* One iteration of the loop of line 83 on one line.
StatsBody(d, rawline) ==
    LET line == Strip(rawline)
    IN  IF line # <<>> /\ Contains(line, ":")
        THEN Put(d, Strip(Split1(line, ":")[1]), Coerce(Split1(line, ":")[2]).val)
        ELSE d

\* The whole loop, range(idx, len(lines)).
RECURSIVE StatsFrom(_, _, _)
StatsFrom(ls, d, idx) ==
    IF idx >= Len(ls) THEN d ELSE StatsFrom(ls, StatsBody(d, ls[idx + 1]), idx + 1)

\* parse_kovaaks_csv as a function of the file's lines
parse_kovaaks_csv(ls) ==
    LET b == ScanFrom(ls, None, None, 0)
    IN  [main |-> MainTable(ls, b.s1).df,
         weapon |-> WeaponTable(ls, b.s1, b.s2).df,
         stats |-> IF b.s2 # None THEN StatsFrom(ls, EmptyMap, b.s2) ELSE EmptyMap]

-----------------------------------------------------------------------------
(* The enumerated files.  A file is any sequence of at most MaxLines lines *)
(* over TableLines or over StatsLines, or one of SampleFiles.              *)

L_blank == <<>>
L_ab == <<"a", ",", "b">>                  \* "a,b"
L_12 == <<"1", ",", "2">>                  \* "1,2"
L_g5 == <<"g", ",", "5">>                  \* "g,5"
L_123 == <<"1", ",", "2", ",", "3">>       \* "1,2,3"
L_comma == <<",">>                          \* ","
L_weapon == <<"W", "e", "a", "p", "o", "n", ",", "s">>      \* "Weapon,s"
L_weapon_sp == <<" ", "W", "e", "a", "p", "o", "n", ",", "s", " ">> \* " Weapon,s "
L_kills == <<"K", "i", "l", "l", "s", ":", ",", "8">>        \* "Kills:,8"
L_kills_sp == <<" ", "K", "i", "l", "l", "s", ":", ",", "8", " ">>   \* " Kills:,8 "
L_S1 == <<"S", ":", " ", "1">>                      \* "S: 1"
L_S2 == <<"S", ":", "2", ",">>                      \* "S:2,"
L_N == <<"N", ":", ",", ",">>                       \* "N:,,"
L_T == <<"T", ":", " ", "1", ":", "2">>             \* "T: 1:2"
L_K1234 == <<"K", ":", " ", "1", ",", "2", "3", "4", ",">>  \* "K: 1,234,"
L_F050 == <<"F", ":", " ", "0", ".", "5", "0", ",">>        \* "F: 0.50,"
L_QNA == <<"Q", ":", " ", "N", "/", "A">>              \* "Q: N/A"

TableLines == {L_blank, L_ab, L_123, L_comma, L_weapon, L_kills}

StatsLines == {L_blank, L_kills_sp, L_S1, L_S2, L_N, L_T, L_weapon_sp}

\* a file laid out with a blank line between its sections
SampleSpaced == <<L_ab, L_12, L_blank, L_weapon, L_g5, L_blank, L_kills, L_K1234, L_F050, L_QNA>>

\* the same sections with no blank line
SampleDense == <<L_ab, L_12, L_weapon, L_g5, L_comma, L_kills, L_S1, L_S2>>

\* a file with no "Weapon," line
SampleStatsOnly == <<L_ab, L_kills, L_S1>>

SampleFiles == {SampleSpaced, SampleDense, SampleStatsOnly}

FilesUpTo(pool, n) == UNION {[1..k -> pool] : k \in 0..n}

Files == FilesUpTo(TableLines, MaxLines) \cup FilesUpTo(StatsLines, MaxLines) \cup SampleFiles

-----------------------------------------------------------------------------
(* parse_kovaaks_csv, step by step *)

ParseIdle ==
    /\ lines = <<>> /\ i = 0 /\ section1_end = None /\ section2_end = None
    /\ examined = {} /\ main_df = EmptyDF /\ weapon_df = EmptyDF
    /\ stats_dict = EmptyMap /\ reads = 0 /\ pc = "idle"

CoerceIdle == raw = <<>> /\ value = StrVal(<<>>) /\ uncaught = "none" /\ cpc = "idle"

LoadIdle ==
    /\ listing = <<>> /\ main_data = EmptyMap /\ weapon_data = EmptyMap
    /\ stats_data = EmptyMap /\ count = 0 /\ log = <<>> /\ lpc = "idle"

\* lines 33-42: the file has been read, the boundaries are unset
InitParse ==
    /\ lines \in Files
    /\ i = 0
    /\ section1_end = None
    /\ section2_end = None
    /\ examined = {}
    /\ main_df = EmptyDF
    /\ weapon_df = EmptyDF
    /\ stats_dict = EmptyMap
    /\ reads = 0
    /\ pc = "scan"
    /\ CoerceIdle
    /\ LoadIdle

\* lines 44-49: one iteration of the boundary scan
ScanStep ==
    /\ pc = "scan"
    /\ i < Len(lines)
    /\ LET r == ScanBody(section1_end, section2_end, i, lines[i + 1])
       IN  /\ section1_end' = r.s1
           /\ section2_end' = r.s2
           /\ IF r.brk THEN pc' = "main" /\ i' = i
              ELSE pc' = "scan" /\ i' = i + 1
    /\ examined' = examined \cup {i}
    /\ UNCHANGED <<lines, main_df, weapon_df, stats_dict, reads>>
    /\ UNCHANGED <<coerceVars, loadVars>>

\* line 44: the scan ran off the end of the file
ScanExit ==
    /\ pc = "scan"
    /\ i >= Len(lines)
    /\ pc' = "main"
    /\ UNCHANGED <<lines, i, section1_end, section2_end, examined, main_df,
                   weapon_df, stats_dict, reads>>
    /\ UNCHANGED <<coerceVars, loadVars>>

\* lines 51-66
ParseMain ==
    /\ pc = "main"
    /\ main_df' = MainTable(lines, section1_end).df
    /\ reads' = reads + MainTable(lines, section1_end).reads
    /\ pc' = "weapon"
    /\ UNCHANGED <<lines, i, section1_end, section2_end, examined, weapon_df, stats_dict>>
    /\ UNCHANGED <<coerceVars, loadVars>>

\* lines 68-82
ParseWeapon ==
    /\ pc = "weapon"
    /\ weapon_df' = WeaponTable(lines, section1_end, section2_end).df
    /\ reads' = reads + WeaponTable(lines, section1_end, section2_end).reads
    /\ i' = IF section2_end # None THEN section2_end ELSE i
    /\ pc' = "stats"
    /\ UNCHANGED <<lines, section1_end, section2_end, examined, main_df, stats_dict>>
    /\ UNCHANGED <<coerceVars, loadVars>>

\* lines 83-101: one iteration of the stats loop
StatsStep ==
    /\ pc = "stats"
    /\ section2_end # None
    /\ i < Len(lines)
    /\ stats_dict' = StatsBody(stats_dict, lines[i + 1])
    /\ i' = i + 1
    /\ UNCHANGED <<lines, section1_end, section2_end, examined, main_df, weapon_df, reads, pc>>
    /\ UNCHANGED <<coerceVars, loadVars>>

\* line 103
Return ==
    /\ pc = "stats"
    /\ section2_end # None => i >= Len(lines)
    /\ pc' = "done"
    /\ UNCHANGED <<lines, i, section1_end, section2_end, examined, main_df,
                   weapon_df, stats_dict, reads>>
    /\ UNCHANGED <<coerceVars, loadVars>>

NextParse == ScanStep \/ ScanExit \/ ParseMain \/ ParseWeapon \/ StatsStep \/ Return

SpecParse == InitParse /\ [][NextParse]_vars

-----------------------------------------------------------------------------
(* The clean-up and conversion of one stats value, lines 89-100, on every  *)
(* text of at most MaxValLen characters over ValueChars and on the texts   *)
(* of SampleValues.                                                        *)

ValueChars == {"1", "0", ",", ".", " ", "N"}

V_1c234c == <<"1", ",", "2", "3", "4", ",">>     \* "1,234,"
V_1234c == <<"1", "2", "3", "4", ",">>           \* "1234,"
V_050c == <<"0", ".", "5", "0", ",">>            \* "0.50,"
V_NA == <<"N", "/", "A">>                      \* "N/A"

SampleValues == {V_1c234c, V_1234c, V_050c, V_NA}

ValueTexts == UNION {[1..k -> ValueChars] : k \in 0..MaxValLen} \cup SampleValues

InitCoerce ==
    /\ raw \in ValueTexts
    /\ value = StrVal(<<>>)
    /\ uncaught = "none"
    /\ cpc = "split"
    /\ ParseIdle
    /\ LoadIdle

\* lines 89-100
CoerceStep ==
    /\ cpc = "split"
    /\ value' = Coerce(raw).val
    /\ uncaught' = Coerce(raw).uncaught
    /\ cpc' = IF Coerce(raw).uncaught = "none" THEN "stored" ELSE "raised"
    /\ UNCHANGED raw
    /\ UNCHANGED <<parseVars, loadVars>>

NextCoerce == CoerceStep

SpecCoerce == InitCoerce /\ [][NextCoerce]_vars

-----------------------------------------------------------------------------
(* The filename pattern of line 128, matched by re.match: anchored at the  *)
(* start of the name only.                                                 *)

ChallengeToken == <<"C", "h", "a", "l", "l", "e", "n", "g", "e">>

StatsCsvToken == <<"S", "t", "a", "t", "s", ".", "c", "s", "v">>

CsvSuffix == <<".", "c", "s", "v">>

\* \d{4}\.\d{2}\.\d{2}-\d{2}\.\d{2}\.\d{2}, "d" standing for \d
TimestampShape == <<"d", "d", "d", "d", ".", "d", "d", ".", "d", "d", "-",
                    "d", "d", ".", "d", "d", ".", "d", "d">>

\* the position after the longest run of whitespace that starts at k
RECURSIVE SkipWs(_, _)
SkipWs(s, k) == IF k <= Len(s) /\ s[k] \in Whitespace THEN SkipWs(s, k + 1) ELSE k

\* the literal p stands at position k of s
LitAt(s, k, p) == k + Len(p) - 1 <= Len(s) /\ SubSeq(s, k, k + Len(p) - 1) = p

TimestampAt(s, k) ==
    /\ k + Len(TimestampShape) - 1 <= Len(s)
    /\ \A j \in 1..Len(TimestampShape) :
          IF TimestampShape[j] = "d" THEN IsDigit(s[k + j - 1])
          ELSE s[k + j - 1] = TimestampShape[j]

\* what follows group 1: \s*-\s*Challenge\s*-\s*(<timestamp>)\s*Stats\.csv
\* matched from position k; each \s* is followed by a non-blank character,
\* so only its longest run can match
TailAt(s, k) ==
    LET a == SkipWs(s, k)
        b == SkipWs(s, a + 1)
        c == SkipWs(s, b + Len(ChallengeToken))
        d == SkipWs(s, c + 1)
        e == SkipWs(s, d + Len(TimestampShape))
    IN  /\ LitAt(s, a, <<"-">>)
        /\ LitAt(s, b, ChallengeToken)
        /\ LitAt(s, c, <<"-">>)
        /\ TimestampAt(s, d)
        /\ LitAt(s, e, StatsCsvToken)

\* the start of group 2 for a tail matched from k
DateAt(s, k) ==
    SkipWs(s, SkipWs(s, SkipWs(s, SkipWs(s, k) + 1) + Len(ChallengeToken)) + 1)

\* the lengths group 1, (.*?), can have: '.' matches no newline
Group1Lengths(s) ==
    {p \in 0..Len(s) : (\A j \in 1..p : s[j] # "\n") /\ TailAt(s, p + 1)}

\* re.match(...) is not None
re_match(s) == Group1Lengths(s) # {}

\* group 1 is lazy: the shortest that lets the rest match
Group1(s) ==
    LET p == CHOOSE q \in Group1Lengths(s) : \A r \in Group1Lengths(s) : q <= r
    IN  SubSeq(s, 1, p)

Group2(s) ==
    LET d == DateAt(s, Len(Group1(s)) + 1)
    IN  SubSeq(s, d, d + Len(TimestampShape) - 1)

\* lines 126-130: the entry is a candidate
IsCandidate(filename) == EndsWith(filename, CsvSuffix) /\ re_match(filename)

\* lines 131-132
task_type(filename) == Strip(Group1(filename))

date(filename) == Group2(filename)

-----------------------------------------------------------------------------
(* The enumerated directory entries and file contents *)

T_CloseRange == <<"C", "l", "o", "s", "e", " ", "R", "a", "n", "g", "e">>
Ts_0115 == <<"2", "0", "2", "4", ".", "0", "1", ".", "1", "5", "-", "1", "0", ".", "3", "0", ".", "0", "0">>
Ts_0116 == <<"2", "0", "2", "4", ".", "0", "1", ".", "1", "6", "-", "1", "1", ".", "0", "0", ".", "0", "0">>
Ts_0117 == <<"2", "0", "2", "4", ".", "0", "1", ".", "1", "7", "-", "1", "2", ".", "0", "0", ".", "0", "0">>
Ts_short == <<"2", "0", "2", "4", ".", "1", ".", "1", "6", "-", "1", "1", ".", "0", "0", ".", "0", "0">>
Sep == <<" ", "-", " ", "C", "h", "a", "l", "l", "e", "n", "g", "e", " ", "-", " ">>       \* " - Challenge - "
Tail_csv == <<" ", "S", "t", "a", "t", "s", ".", "c", "s", "v">>                       \* " Stats.csv"
Tail_txt == <<" ", "S", "t", "a", "t", "s", ".", "t", "x", "t">>                       \* " Stats.txt"
Tail_bak == <<".", "b", "a", "k", ".", "c", "s", "v">>                                         \* ".bak.csv"

\* "Close Range - Challenge - 2024.01.15-10.30.00 Stats.csv"
F_close == T_CloseRange \o Sep \o Ts_0115 \o Tail_csv
\* "Close Range  - Challenge - 2024.01.15-10.30.00 Stats.csv"
F_close_wide == T_CloseRange \o <<" ">> \o Sep \o Ts_0115 \o Tail_csv
\* "Close Range - Challenge - 2024.01.15-10.30.00 Stats.csv.bak.csv"
F_close_bak == F_close \o Tail_bak
\* "B - Challenge - 2024.01.16-11.00.00 Stats.csv"
F_b == <<"B">> \o Sep \o Ts_0116 \o Tail_csv
\* "B - Challenge - 2024.01.17-12.00.00 Stats.csv"
F_b_later == <<"B">> \o Sep \o Ts_0117 \o Tail_csv
\* "B - Challenge - 2024.1.16-11.00.00 Stats.csv"
F_short == <<"B">> \o Sep \o Ts_short \o Tail_csv
\* "D - Challenge - 2024.01.15-10.30.00 Stats.txt"
F_txt == <<"D">> \o Sep \o Ts_0115 \o Tail_txt
\* "random_notes.csv"
F_notes == <<"r", "a", "n", "d", "o", "m", "_", "n", "o", "t", "e", "s", ".", "c", "s", "v">>

Filenames == {F_close, F_close_wide, F_close_bak, F_b, F_b_later, F_short, F_txt, F_notes}

Contents == {SampleDense, SampleStatsOnly}

-----------------------------------------------------------------------------
(* load_all_kovaaks_data *)

ProgressEvery == 10

\* Insert replacing the task's inner dict instead of adding to it
InsertReplace(d, task, dt, v) == Put(d, task, Put(EmptyMap, dt, v))

\* d[task][date] = v on a defaultdict of defaultdicts
Insert(d, task, dt, v) ==
    Put(d, task, Put(IF task \in DOMAIN d THEN d[task] ELSE EmptyMap, dt, v))

\* the (task, date) pairs a nested dict holds
Keys(d) == UNION {{<<task, dt>> : dt \in DOMAIN d[task]} : task \in DOMAIN d}

\* Store keeping the outputs an identity already has
StoreKeepFirst(md, wd, sd, id, r) ==
    IF id.task \in DOMAIN md /\ id.date \in DOMAIN md[id.task]
    THEN [main |-> md, weapon |-> wd, stats |-> sd]
    ELSE [main |-> Insert(md, id.task, id.date, r.main),
          weapon |-> Insert(wd, id.task, id.date, r.weapon),
          stats |-> Insert(sd, id.task, id.date, r.stats)]

\* lines 138-140: the three outputs r of one parse stored under identity id
Store(md, wd, sd, id, r) ==
    [main |-> Insert(md, id.task, id.date, r.main),
     weapon |-> Insert(wd, id.task, id.date, r.weapon),
     stats |-> Insert(sd, id.task, id.date, r.stats)]

\* OnException with no handler: the exception leaves load_all_kovaaks_data
OnExceptionAbort(lg, filename) == [log |-> lg, lpc |-> "raised"]

\* lines 145-147: what an exception raised inside the try block leads to
OnException(lg, filename) ==
    [log |-> Append(lg, [kind |-> "error", name |-> filename, n |-> 0]), lpc |-> "loop"]

Listed == {listing[k].name : k \in 1..Len(listing)}

\* lines 126-132 and line 136 on the enumerated names and contents, computed once
CandidateNames == {f \in Filenames : IsCandidate(f)}

Identity == [f \in CandidateNames |-> [task |-> task_type(f), date |-> date(f)]]

ParseOf == [c \in Contents |-> parse_kovaaks_csv(c)]

\* lines 120-124
InitLoad ==
    /\ listing = <<>>
    /\ main_data = EmptyMap
    /\ weapon_data = EmptyMap
    /\ stats_data = EmptyMap
    /\ count = 0
    /\ log = <<>>
    /\ lpc = "loop"
    /\ ParseIdle
    /\ CoerceIdle

\* lines 126-130 with a name that is no candidate: nothing happens
SkipEntry ==
    /\ lpc = "loop"
    /\ Len(listing) < MaxFiles
    /\ \E filename \in Filenames \ Listed :
          /\ filename \notin CandidateNames
          /\ listing' = Append(listing, [name |-> filename, outcome |-> "skipped",
                                         content |-> <<>>])
    /\ UNCHANGED <<main_data, weapon_data, stats_data, count, log, lpc>>
    /\ UNCHANGED <<parseVars, coerceVars>>

\* lines 131-144: the file is read and parsed, its three outputs stored
LoadEntry ==
    /\ lpc = "loop"
    /\ Len(listing) < MaxFiles
    /\ \E filename \in Filenames \ Listed, content \in Contents :
          /\ filename \in CandidateNames
          /\ LET st == Store(main_data, weapon_data, stats_data,
                              Identity[filename], ParseOf[content])
             IN  /\ main_data' = st.main
                 /\ weapon_data' = st.weapon
                 /\ stats_data' = st.stats
          /\ listing' = Append(listing, [name |-> filename, outcome |-> "ok",
                                         content |-> content])
    /\ count' = count + 1
    /\ log' = IF (count + 1) % ProgressEvery = 0
              THEN Append(log, [kind |-> "progress", name |-> <<>>, n |-> count + 1])
              ELSE log
    /\ UNCHANGED lpc
    /\ UNCHANGED <<parseVars, coerceVars>>

\* lines 131-136, 145-147: open() or the read raises, the error is printed
FailEntry ==
    /\ lpc = "loop"
    /\ Len(listing) < MaxFiles
    /\ \E filename \in Filenames \ Listed :
          /\ filename \in CandidateNames
          /\ listing' = Append(listing, [name |-> filename, outcome |-> "error",
                                         content |-> <<>>])
          /\ log' = OnException(log, filename).log
          /\ lpc' = OnException(log, filename).lpc
    /\ UNCHANGED <<main_data, weapon_data, stats_data, count>>
    /\ UNCHANGED <<parseVars, coerceVars>>

\* lines 149-152: the listing is exhausted
Finish ==
    /\ lpc = "loop"
    /\ log' = log \o <<[kind |-> "total", name |-> <<>>, n |-> count],
                       [kind |-> "tasks", name |-> <<>>, n |-> Cardinality(DOMAIN main_data)]>>
    /\ lpc' = "returned"
    /\ UNCHANGED <<listing, main_data, weapon_data, stats_data, count>>
    /\ UNCHANGED <<parseVars, coerceVars>>

NextLoad == SkipEntry \/ LoadEntry \/ FailEntry \/ Finish

SpecLoad == InitLoad /\ [][NextLoad]_vars

-----------------------------------------------------------------------------
(* Properties of parse_kovaaks_csv, checked under SpecParse *)

NumLines == Len(lines)

\* the 0-based indices of the lines whose trimmed text starts with a token
IndicesOf(token) == {k \in 0..(NumLines - 1) : StartsWith(Strip(lines[k + 1]), token)}

\* the least element of a set of indices, None when there is none
FirstOf(S) == IF S = {} THEN None ELSE CHOOSE k \in S : \A j \in S : k <= j

\* C3: once the boundary scan is over, section2_end is the index of the
\* first "Kills:," line (unset when there is none), the scan has examined
\* exactly the lines up to that index (all lines when there is none), and
\* section1_end is the index of the first "Weapon," line among the examined
\* lines (unset when there is none among them).
C3_ScanBoundaries ==
    pc \in {"main", "weapon", "stats", "done"} =>
        /\ section2_end = FirstOf(IndicesOf(KillsToken))
        /\ examined = IF section2_end = None THEN 0..(NumLines - 1) ELSE 0..section2_end
        /\ section1_end = FirstOf(IndicesOf(WeaponToken) \cap examined)

\* C3 witness: a file with a second "Kills:," line and a "Weapon," line, both
\* after the first "Kills:," line, has been scanned and parsed.
C3_Witness ==
    /\ pc = "done"
    /\ section2_end # None
    /\ section1_end = None
    /\ \E k \in IndicesOf(KillsToken) : k > section2_end
    /\ \E k \in IndicesOf(WeaponToken) : k > section2_end

\* the indices of the lines that make a stats entry
StatLines ==
    {k \in section2_end..(NumLines - 1) :
        Strip(lines[k + 1]) # <<>> /\ Contains(Strip(lines[k + 1]), ":")}

\* the trimmed text before the first colon of line k
KeyOfLine(k) ==
    LET l == Strip(lines[k + 1])
        c == CHOOSE q \in 1..Len(l) : l[q] = ":" /\ \A j \in 1..(q - 1) : l[j] # ":"
    IN  Strip(SubSeq(l, 1, c - 1))

\* the value derived from the text after the first colon of line k
ValueOfLine(k) ==
    LET l == Strip(lines[k + 1])
        c == CHOOSE q \in 1..Len(l) : l[q] = ":" /\ \A j \in 1..(q - 1) : l[j] # ":"
    IN  Coerce(SubSeq(l, c + 1, Len(l))).val

LastLineOf(key) ==
    CHOOSE k \in StatLines : KeyOfLine(k) = key /\
        \A j \in StatLines : KeyOfLine(j) = key => j <= k

\* C5: when section2_end is set, the keys of the Stats Map are exactly the
\* trimmed texts before the first colon of the non-empty lines at index >=
\* section2_end that hold a colon, each key holds the value of the last such
\* line with that key ("S: 1" then "S:2," gives S -> 2), and a value that is
\* empty after comma-stripping ("N:,,") is stored as the empty string.
C5_StatsLastWins ==
    (pc = "done" /\ section2_end # None) =>
        /\ DOMAIN stats_dict = {KeyOfLine(k) : k \in StatLines}
        /\ \A key \in DOMAIN stats_dict : stats_dict[key] = ValueOfLine(LastLineOf(key))
        /\ \A a, b \in StatLines :
              (a < b /\ lines[a + 1] = L_S1 /\ lines[b + 1] = L_S2
                     /\ \A j \in StatLines : j > b => KeyOfLine(j) # <<"S">>)
              => stats_dict[<<"S">>] = IntVal(2)
        /\ \A a \in StatLines :
              (lines[a + 1] = L_N /\ \A j \in StatLines : j > a => KeyOfLine(j) # <<"N">>)
              => stats_dict[<<"N">>] = StrVal(<<>>)

\* C5 witness: a parsed file with a colon line before section2_end whose key
\* is not in the map, and "S: 1" followed by "S:2," in the stats block.
C5_Witness ==
    /\ pc = "done"
    /\ section2_end # None
    /\ \E k \in 0..(section2_end - 1) :
          /\ Contains(lines[k + 1], ":")
          /\ Strip(Split1(lines[k + 1], ":")[1]) \notin DOMAIN stats_dict
    /\ \E a, b \in StatLines : a < b /\ lines[a + 1] = L_S1 /\ lines[b + 1] = L_S2
    /\ stats_dict[<<"S">>] = IntVal(2)

\* C9: when section1_end was never set, both tables are empty containers
\* with no columns, no read_csv call was made, and with a "Kills:," line the
\* Stats Map holds the keys of the lines from section2_end on, "Kills" among
\* them.
C9_NoWeaponLine ==
    (pc = "done" /\ section1_end = None) =>
        /\ main_df = EmptyDF
        /\ weapon_df = EmptyDF
        /\ reads = 0
        /\ section2_end # None =>
              /\ <<"K", "i", "l", "l", "s">> \in DOMAIN stats_dict
              /\ DOMAIN stats_dict = {KeyOfLine(k) : k \in StatLines}

\* C9 witness: a parsed file that starts with a tabular line, has a
\* "Kills:," line and has no "Weapon," line before it.
C9_Witness ==
    /\ pc = "done"
    /\ section1_end = None
    /\ section2_end # None /\ section2_end > 0
    /\ lines[1] = L_ab
    /\ Cardinality(DOMAIN stats_dict) >= 2

\* C1, as claimed: when section1_end is set and > 0 (and line 0, the header,
\* is not blank), the Event Table's column names are those of line 0 and
\* every data row comes from a line with index in [1, section1_end).
C1_EventRowsBeforeWeapon ==
    (pc = "done" /\ section1_end # None /\ section1_end > 0 /\ ~IsBlankLine(lines[1])) =>
        /\ main_df.columns = ColumnNames(Fields(lines[1]))
        /\ \A r \in 1..Len(main_df.rows) : main_df.rows[r].src \in 1..(section1_end - 1)

\* C2, as claimed: when both boundaries are set, the Metadata Table is
\* empty without columns (a failed parse) or has the header of line
\* section1_end; its rows come only from lines with index in
\* (section1_end, section2_end), and no row has all its fields blank.
C2_MetadataRowsBeforeKills ==
    (pc = "done" /\ section1_end # None /\ section2_end # None) =>
        /\ weapon_df = EmptyDF \/ weapon_df.columns = ColumnNames(Fields(lines[section1_end + 1]))
        /\ \A r \in 1..Len(weapon_df.rows) :
              /\ weapon_df.rows[r].src \in (section1_end + 1)..(section2_end - 1)
              /\ \E c \in 1..Len(weapon_df.rows[r].cells) : weapon_df.rows[r].cells[c] # NaN

-----------------------------------------------------------------------------
(* Properties of the stats value conversion, checked under SpecCoerce *)

\* C4, as claimed: "1,234," is stored as the integer 1234, "0.50," as the
\* float 0.5, "N/A" as the string "N/A", and the conversion never raises.
C4_CoercionExamples ==
    /\ cpc # "raised"
    /\ cpc = "stored" =>
          /\ raw = V_1c234c => value = IntVal(1234)
          /\ raw = V_050c => value = [t |-> "float", s |-> <<>>, n |-> 5, e |-> 1]
          /\ raw = V_NA => value = StrVal(V_NA)

\* C4, amended: "1,234," keeps its inner comma and is stored as the string
\* "1,234"; "1234," and ",1" are stored as the integers 1234 and 1, "0.50,"
\* as the float 0.5, "N/A" as the string "N/A"; the conversion never
\* raises, and a value that is not stored as a number is stored as a
\* string: a part of the text, without blanks at its ends.
C4_CoercionAmended ==
    /\ cpc # "raised"
    /\ uncaught = "none"
    /\ cpc = "stored" =>
          /\ raw = V_1c234c => value = StrVal(<<"1", ",", "2", "3", "4">>)
          /\ raw = V_1234c => value = IntVal(1234)
          /\ raw = <<",", "1">> => value = IntVal(1)
          /\ raw = V_050c => value = [t |-> "float", s |-> <<>>, n |-> 5, e |-> 1]
          /\ raw = V_NA => value = StrVal(V_NA)
          /\ value.t \in {"str", "int", "float"}
          /\ value.t = "str" =>
                /\ value.n = 0
                /\ \/ value.s = <<>>
                   \/ /\ value.s[1] \notin Whitespace
                      /\ value.s[Len(value.s)] \notin Whitespace
                /\ \E a, b \in 0..Len(raw) :
                      /\ a + b + Len(value.s) = Len(raw)
                      /\ SubSeq(raw, a + 1, a + Len(value.s)) = value.s

\* C4 witness: the value text "1,234," has been converted and stored as a string.
C4_Witness == cpc = "stored" /\ raw = V_1c234c /\ value.t = "str"

-----------------------------------------------------------------------------
(* Properties of load_all_kovaaks_data, checked under SpecLoad *)

\* the positions of the listing with a given outcome
EntriesWith(outcome) == {k \in 1..Len(listing) : listing[k].outcome = outcome}

\* the (task, date) pairs of the files read and parsed without exception
LoadedKeys == {<<Identity[listing[k].name].task, Identity[listing[k].name].date>> :
                  k \in EntriesWith("ok")}

ErrorLines == {k \in 1..Len(log) : log[k].kind = "error"}

\* C6: with any mix of failing files, load_all_kovaaks_data never raises,
\* the three indices hold exactly the identities of the files read and
\* parsed without exception (none at all when every candidate failed), and
\* the log holds one error line per failing file, in listing order, naming
\* the file.
C6_FailuresAreSkipped ==
    /\ lpc \in {"loop", "returned"}
    /\ Keys(main_data) = LoadedKeys
    /\ Keys(weapon_data) = LoadedKeys
    /\ Keys(stats_data) = LoadedKeys
    /\ Cardinality(ErrorLines) = Cardinality(EntriesWith("error"))
    /\ \A k \in EntriesWith("error") :
          \E e \in ErrorLines :
              /\ log[e].name = listing[k].name
              /\ Cardinality({j \in ErrorLines : j <= e})
                    = Cardinality({j \in EntriesWith("error") : j <= k})

\* C6 witness: a listing of 3 files that parsed and 1 that failed, the
\* failing one not last, has been worked off: 3 entries, 1 error line.
C6_Witness ==
    /\ lpc = "returned"
    /\ Len(listing) = 4
    /\ Cardinality(EntriesWith("ok")) = 3
    /\ \E k \in 1..3 : listing[k].outcome = "error" /\ listing[k + 1].outcome = "ok"
    /\ Cardinality(Keys(main_data)) = 3
    /\ Cardinality(Keys(stats_data)) = 3
    /\ Cardinality(ErrorLines) = 1

\* the name has the form "<task name> - Challenge - <timestamp> Stats.csv"
\* from its first to its last character
WholeForm(f) ==
    LET n == Len(f)
        ts == n - Len(Tail_csv) - Len(TimestampShape) + 1
    IN  /\ ts - Len(Sep) >= 1
        /\ EndsWith(f, Tail_csv)
        /\ TimestampAt(f, ts)
        /\ SubSeq(f, ts - Len(Sep), ts - 1) = Sep

WholeFormTask(f) ==
    Strip(SubSeq(f, 1, Len(f) - Len(Tail_csv) - Len(TimestampShape) - Len(Sep)))

WholeFormDate(f) ==
    SubSeq(f, Len(f) - Len(Tail_csv) - Len(TimestampShape) + 1, Len(f) - Len(Tail_csv))

\* C7, as claimed, on listings whose candidate names all have the whole-name
\* form: each index holds as many (task, date) entries as files matched the
\* pattern and parsed without exception, the count reported as total.
C7_OneEntryPerFile ==
    (\A k \in 1..Len(listing) : listing[k].outcome = "skipped" \/ WholeForm(listing[k].name)) =>
        /\ Cardinality(Keys(main_data)) = Cardinality(EntriesWith("ok"))
        /\ Cardinality(Keys(weapon_data)) = Cardinality(EntriesWith("ok"))
        /\ Cardinality(Keys(stats_data)) = Cardinality(EntriesWith("ok"))
        /\ count = Cardinality(EntriesWith("ok"))

\* C7, amended: each index holds one entry per distinct (task, date)
\* identity among the files that matched the pattern and parsed without
\* exception; the count reported as total is the number of those files,
\* which is at least the number of entries.
C7_OneEntryPerIdentity ==
    /\ Cardinality(Keys(main_data)) = Cardinality(LoadedKeys)
    /\ Cardinality(Keys(weapon_data)) = Cardinality(LoadedKeys)
    /\ Cardinality(Keys(stats_data)) = Cardinality(LoadedKeys)
    /\ Keys(main_data) = LoadedKeys
    /\ count = Cardinality(EntriesWith("ok"))
    /\ Cardinality(Keys(main_data)) <= count
    /\ (\A j, k \in EntriesWith("ok") :
            j # k => Identity[listing[j].name] # Identity[listing[k].name])
          => Cardinality(Keys(main_data)) = count
    /\ lpc = "returned" =>
          \E e \in 1..Len(log) : log[e].kind = "total" /\ log[e].n = count

\* C7 witness: the run has returned after three files parsed, two of them
\* of whole-name form with the same identity.
C7_Witness ==
    /\ lpc = "returned"
    /\ count = 3
    /\ Cardinality(Keys(main_data)) = 2
    /\ \E j, k \in EntriesWith("ok") :
          /\ j # k
          /\ WholeForm(listing[j].name) /\ WholeForm(listing[k].name)
          /\ Identity[listing[j].name] = Identity[listing[k].name]

\* C8, as claimed: an entry is read (with or without success) exactly when
\* its whole name has the form, its identity then being the trimmed task
\* name and the timestamp text; any other name is skipped, with no entry and
\* no error line.
C8_WholeNameForm ==
    /\ \A k \in 1..Len(listing) :
          /\ listing[k].outcome # "skipped" <=> WholeForm(listing[k].name)
          /\ listing[k].outcome = "ok" =>
                /\ main_data[WholeFormTask(listing[k].name)][WholeFormDate(listing[k].name)]
                      \in {ParseOf[c].main : c \in Contents}
    /\ \A e \in ErrorLines : WholeForm(log[e].name)

\* C10: between any two files the three indices hold the same (task, date)
\* keys, and each key holds the three outputs of the last file in listing
\* order that maps to it and was parsed without exception.
C10_IndicesInStep ==
    /\ Keys(main_data) = Keys(weapon_data)
    /\ Keys(main_data) = Keys(stats_data)
    /\ \A key \in Keys(main_data) :
          \E k \in EntriesWith("ok") :
              /\ <<Identity[listing[k].name].task, Identity[listing[k].name].date>> = key
              /\ \A j \in EntriesWith("ok") :
                    Identity[listing[j].name] = Identity[listing[k].name] => j <= k
              /\ main_data[key[1]][key[2]] = ParseOf[listing[k].content].main
              /\ weapon_data[key[1]][key[2]] = ParseOf[listing[k].content].weapon
              /\ stats_data[key[1]][key[2]] = ParseOf[listing[k].content].stats

\* C10 witness: in the middle of the loop, after a skipped name, a failing
\* file and two parsed files of one identity with different contents.
C10_Witness ==
    /\ lpc = "loop"
    /\ EntriesWith("skipped") # {}
    /\ EntriesWith("error") # {}
    /\ \E j, k \in EntriesWith("ok") :
          /\ j < k
          /\ Identity[listing[j].name] = Identity[listing[k].name]
          /\ listing[j].content # listing[k].content
          /\ stats_data[Identity[listing[k].name].task][Identity[listing[k].name].date]
                = ParseOf[listing[k].content].stats

====
